---- MODULE Spec2Model ----
(***************************************************************************)
(* siriusxm2usb: playlist normalizer, catalog resolver, download           *)
(* dispatcher and channel orchestrator of src/siriusxm2usb.py.             *)
(*                                                                         *)
(* Text is a sequence of one-character strings, so that joining,           *)
(* replacing and splitting are computed character by character.            *)
(* A JSON value is a record [k |-> kind, v |-> payload]; a dict keeps its  *)
(* items as a sequence of <<key, value>> pairs in insertion order.         *)
(***************************************************************************)
EXTENDS Integers, Sequences, FiniteSets, TLC

\* ------------------------------------------------------------------------
\* Bounds of the model
\* ------------------------------------------------------------------------
MaxArtists == 2
MaxWrap == 1

\* ------------------------------------------------------------------------
\* Text
\* ------------------------------------------------------------------------
Empty == <<>>
NameA == <<"A">>
NameB == <<"B">>
TitleT == <<"T">>
TitleU == <<"U">>
SepArtists == <<",", " ">>
SepTitle == <<" ", "-", " ">>

\* ------------------------------------------------------------------------
\* JSON values as Python sees them after json.load
\* ------------------------------------------------------------------------
JStr(s) == [k |-> "str", v |-> s]
JNum(n) == [k |-> "num", v |-> n]
JNull == [k |-> "null", v |-> 0]
JList(items) == [k |-> "list", v |-> items]
JDict(pairs) == [k |-> "dict", v |-> pairs]
\* A Python str holding JSON text: it parses to doc, or it is malformed.
JText(ok, doc) == [k |-> "text", v |-> [ok |-> ok, doc |-> doc]]

IsStr(x) == x.k = "str"
IsList(x) == x.k = "list"
IsDict(x) == x.k = "dict"

\* key in d
Has(d, key) == \E i \in 1..Len(d.v) : d.v[i][1] = key
\* d[key]
Get(d, key) == d.v[CHOOSE i \in 1..Len(d.v) : d.v[i][1] = key][2]
\* d.get(key): None when the key is absent
GetOrNone(d, key) == IF Has(d, key) THEN Get(d, key) ELSE JNull

\* Python truth value of a JSON value
Truthy(x) ==
    CASE x.k = "str" -> Len(x.v) > 0
      [] x.k = "num" -> x.v # 0
      [] x.k = "null" -> FALSE
      [] x.k = "list" -> Len(x.v) > 0
      [] x.k = "dict" -> Len(x.v) > 0
      [] OTHER -> TRUE

Digit(n) == <<"0", "1", "2", "3", "4", "5", "6", "7", "8", "9">>[n + 1]

\* str(x) as an f-string formats it; containers are shown by their brackets
Format(x) ==
    CASE x.k = "str" -> x.v
      [] x.k = "num" -> <<Digit(x.v)>>
      [] x.k = "null" -> <<"N", "o", "n", "e">>
      [] x.k = "list" -> <<"[", "]">>
      [] OTHER -> <<"{", "}">>

\* ------------------------------------------------------------------------
\* Playlist normalizer: process_track_records
\* ------------------------------------------------------------------------
\* position of key in d; a value's path is the sequence of positions (of the
\* dict item, of the list element) that leads to it from the document root
KeyIdx(d, key) == CHOOSE i \in 1..Len(d.v) : d.v[i][1] = key

RECURSIVE JoinText(_, _)
\* sep.join(texts)
JoinText(sep, texts) ==
    IF texts = <<>> THEN <<>>
    ELSE IF Len(texts) = 1 THEN texts[1]
    ELSE texts[1] \o sep \o JoinText(sep, Tail(texts))

\* the filter of the list comprehension: a str, or a dict with a truthy name
ArtistKept(artist) ==
    IsStr(artist) \/ (IsDict(artist) /\ Truthy(GetOrNone(artist, "name")))

RECURSIVE artist_names(_)
\* [artist if str else artist.get("name") for artist in artists if ...]
artist_names(artists) ==
    IF artists = <<>> THEN <<>>
    ELSE LET artist == Head(artists)
             rest == artist_names(Tail(artists))
         IN  IF ArtistKept(artist)
             THEN <<IF IsStr(artist) THEN artist ELSE GetOrNone(artist, "name")>> \o rest
             ELSE rest

\* the outcome of a step: the entries it appended, or err when it raised TypeError
Ok(recs) == [err |-> FALSE, recs |-> recs]
Raised == [err |-> TRUE, recs |-> <<>>]

\* f"{artist_string} - {title}"
RecordOf(e) == e.artist \o SepTitle \o e.title

\* the body of `for track in tracks_to_process` for one track; ", ".join raises
\* TypeError when a kept name is not a str
process_one_track(track, path) ==
    IF IsDict(track) /\ Has(track, "artists") /\ Has(track, "title")
    THEN LET artists == Get(track, "artists")
         IN  IF IsList(artists)
             THEN LET names == artist_names(artists.v)
                  IN  IF names # <<>>
                      THEN IF \E i \in 1..Len(names) : ~IsStr(names[i])
                           THEN Raised
                           ELSE LET artist_string ==
                                        JoinText(SepArtists, [i \in 1..Len(names) |-> names[i].v])
                                    title == GetOrNone(track, "title")
                                IN  IF Truthy(title)
                                    THEN Ok(<<[path |-> path,
                                               artist |-> artist_string,
                                               title |-> Format(title)]>>)
                                    ELSE Ok(<<>>)
                      ELSE Ok(<<>>)
             ELSE Ok(<<>>)
    ELSE Ok(<<>>)

RECURSIVE Chain(_)
\* the steps run one after the other; the first that raises ends them all
Chain(outcomes) ==
    IF outcomes = <<>> THEN Ok(<<>>)
    ELSE LET first == Head(outcomes)
             rest == Chain(Tail(outcomes))
         IN  IF first.err \/ rest.err THEN Raised ELSE Ok(first.recs \o rest.recs)

\* SingularIsDict / ElifTracks: the if / elif that chooses tracks_to_process
SingularIsDict(data) == Has(data, "track") /\ IsDict(Get(data, "track"))
ElifTracks_AsIf(data) == Has(data, "tracks") /\ IsList(Get(data, "tracks"))
ElifTracks(data) ==
    ~SingularIsDict(data) /\ Has(data, "tracks") /\ IsList(Get(data, "tracks"))

\* the tracks a dict offers, each with its path: the singular track, or else
\* the items of the plural list
tracks_to_process(data, path) ==
    (IF SingularIsDict(data)
     THEN <<[track |-> Get(data, "track"), path |-> Append(path, KeyIdx(data, "track"))]>>
     ELSE <<>>)
    \o (IF ElifTracks(data)
        THEN LET lst == Get(data, "tracks").v
                 at == Append(path, KeyIdx(data, "tracks"))
             IN  [j \in 1..Len(lst) |-> [track |-> lst[j], path |-> Append(at, j)]]
        ELSE <<>>)

RECURSIVE extract_tracks(_, _)
extract_tracks(data, path) ==
    IF IsDict(data)
    THEN LET cand == tracks_to_process(data, path)
         IN  Chain([i \in 1..Len(cand) |-> process_one_track(cand[i].track, cand[i].path)]
                   \o [i \in 1..Len(data.v) |-> extract_tracks(data.v[i][2], Append(path, i))])
    ELSE IF IsList(data)
    THEN Chain([i \in 1..Len(data.v) |-> extract_tracks(data.v[i], Append(path, i))])
    ELSE Ok(<<>>)

\* json.loads(json_data) for a Python str: no text over the model's alphabet other
\* than a JText that parses is a JSON document
json_loads(json_data) ==
    IF json_data.k = "text" /\ json_data.v.ok
    THEN [err |-> FALSE, doc |-> json_data.v.doc]
    ELSE [err |-> TRUE, doc |-> JNull]

\* process_track_records: the emitted entries, in order; [] when json.loads or
\* the extraction raised (JSONDecodeError, TypeError)
process_track_records(json_data) ==
    IF json_data.k \in {"str", "text"}
    THEN LET loaded == json_loads(json_data)
         IN  IF loaded.err THEN <<>>
             ELSE LET r == extract_tracks(loaded.doc, <<>>)
                  IN  IF r.err THEN <<>> ELSE r.recs
    ELSE LET r == extract_tracks(json_data, <<>>)
         IN  IF r.err THEN <<>> ELSE r.recs

\* ------------------------------------------------------------------------
\* The bounded playlist documents
\* ------------------------------------------------------------------------
SeqsUpTo(S, n) == UNION {[1..m -> S] : m \in 0..n}

\* a field left out of a dict
Absent == [k |-> "absent", v |-> 0]
RECURSIVE Fields(_)
Fields(pairs) ==
    IF pairs = <<>> THEN <<>>
    ELSE IF Head(pairs)[2] = Absent THEN Fields(Tail(pairs))
    ELSE <<Head(pairs)>> \o Fields(Tail(pairs))

ArtistEntries ==
    { JStr(Empty), JStr(NameA),
      JDict(<<<<"name", JStr(NameB)>>>>), JDict(<<<<"name", JStr(Empty)>>>>),
      JDict(<<<<"name", JNum(5)>>>>), JNum(7) }
ArtistsValues ==
    {JList(l) : l \in SeqsUpTo(ArtistEntries, MaxArtists)} \cup {JStr(NameA), Absent}
TitleValues == {JStr(Empty), JStr(TitleT), JNum(5), JNull, Absent}
MkTrack(a, t) == JDict(Fields(<<<<"artists", a>>, <<"title", t>>>>))
GoodTrack == MkTrack(JList(<<JStr(NameA)>>), JStr(TitleU))
OtherItems == {GoodTrack, MkTrack(JList(<<JStr(NameB)>>), Absent), JStr(NameA)}

\* the shapes of a document around one track t
Shapes == {"track", "tracks", "both", "within", "mistyped", "scalar"}
ShapeDocs(shape, t) ==
    CASE shape = "track" -> {JDict(<<<<"track", t>>>>)}
      [] shape = "tracks" -> {JDict(<<<<"tracks", JList(<<t, g>>)>>>>) : g \in OtherItems}
      [] shape = "both" ->
            {JDict(<<<<"track", g>>, <<"tracks", JList(<<t>>)>>>>) :
                g \in {GoodTrack, JStr(NameA)}}
      [] shape = "within" -> {JDict(<<<<"track", JDict(GoodTrack.v \o <<<<"track", t>>>>)>>>>)}
      [] shape = "mistyped" ->
            {JDict(<<<<"tracks", JStr(NameA)>>>>), JDict(<<<<"track", JNull>>>>)}
      [] OTHER -> {JDict(<<>>), JList(<<>>), JNum(5), JNull}

WrapList(d) == JList(<<d, JDict(<<<<"track", GoodTrack>>>>)>>)
WrapDict(d) == JDict(<<<<"results", d>>>>)
RECURSIVE Wrap(_, _)
\* d inside the wrappers ws, the first of them outermost
Wrap(ws, d) ==
    IF ws = <<>> THEN d
    ELSE IF Head(ws) = "list" THEN WrapList(Wrap(Tail(ws), d))
    ELSE WrapDict(Wrap(Tail(ws), d))
Wrappers == SeqsUpTo({"list", "dict"}, MaxWrap)

\* how process_track_records is given the document: parsed, or as JSON text, or
\* as text that is not JSON
Given == {"parsed", "text", "malformed"}
NormInput(given, d) ==
    CASE given = "parsed" -> d
      [] given = "text" -> JText(TRUE, d)
      [] OTHER -> JText(FALSE, JNull)

\* ------------------------------------------------------------------------
\* Catalog resolver: find_song_on_youtube
\* ------------------------------------------------------------------------
Songs == <<"S", "o", "n", "g", "s">>
Videos == <<"V", "i", "d", "e", "o", "s">>
\* the fixed template of the URL, kept as one piece of text
UrlTemplate == <<"https://music.youtube.com/watch?v=">>
NoUrl == [found |-> FALSE, url |-> Empty]
UrlOf(vid) == [found |-> TRUE, url |-> UrlTemplate \o Format(vid)]

\* the condition of the if inside the for loop
Accepts(item) ==
    /\ IsDict(item)
    /\ GetOrNone(item, "category") = JStr(Songs)
    /\ GetOrNone(item, "videoId") # JNull

RECURSIVE find_song_on_youtube(_)
\* the for loop over search_results: the first accepted item returns its URL, an
\* item that is not accepted is logged and the loop goes on; None at the end
find_song_on_youtube(search_results) ==
    IF search_results = <<>> THEN NoUrl
    ELSE IF Accepts(Head(search_results))
    THEN UrlOf(GetOrNone(Head(search_results), "videoId"))
    ELSE find_song_on_youtube(Tail(search_results))

\* the bounded answers of the catalog search
MaxResults == 2
VidX == <<"x">>
VidY == <<"y">>
ResultItems ==
    {JDict(Fields(<<<<"category", c>>, <<"videoId", v>>>>)) :
        c \in {JStr(Songs), JStr(Videos), Absent},
        v \in {JStr(VidX), JStr(VidY), JNull, Absent}}
    \cup {JStr(VidX)}
SearchResults == SeqsUpTo(ResultItems, MaxResults)

\* ------------------------------------------------------------------------
\* Text operations of the dispatcher
\* ------------------------------------------------------------------------
\* track.replace('/', '-').replace('\\', '-')
Sanitize_Keep(track) == track
Sanitize(track) ==
    [i \in 1..Len(track) |-> IF track[i] \in {"/", "\\"} THEN "-" ELSE track[i]]

\* where " - " first occurs in track, 0 when it does not
FirstSep(track) ==
    LET at == {i \in 1..Len(track) - 2 : SubSeq(track, i, i + 2) = SepTitle}
    IN  IF at = {} THEN 0 ELSE CHOOSE i \in at : \A k \in at : i <= k

\* a, t = track.split(' - ', 1); ok is false when there are not two parts
SplitFirst(track) ==
    LET i == FirstSep(track)
    IN  IF i = 0 THEN [ok |-> FALSE, a |-> track, t |-> Empty]
        ELSE [ok |-> TRUE, a |-> SubSeq(track, 1, i - 1),
              t |-> SubSeq(track, i + 3, Len(track))]

\* f'{artist} - {title}'
search_param(artist, title) == artist \o SepTitle \o title

Mp3Ext == <<".", "m", "p", "3">>
\* f'{dst_folder}/{track_sanitize}.mp3', the folder being that of the channel
Mp3Path(channel, name) == [folder |-> channel, file |-> name \o Mp3Ext]

\* ------------------------------------------------------------------------
\* The program: bounds and the environment's answers
\* ------------------------------------------------------------------------
Channels == {"c1", "c2"}
MaxChannels == 2
MaxRuns == 2
\* cpu_count() of the host
CpuCount == 2

ArgChoices ==
    [channel : UNION {[1..n -> Channels] : n \in 1..MaxChannels}, download : BOOLEAN]

NameAB == <<"A", "/", "B">>
NameA_B == <<"A", "-", "B">>
DocTwo ==
    JDict(<<<<"tracks", JList(<<MkTrack(JList(<<JStr(NameA)>>), JStr(TitleT)),
                                MkTrack(JList(<<JStr(NameB)>>), JStr(TitleU))>>)>>>>)
DocSame ==
    JDict(<<<<"tracks", JList(<<MkTrack(JList(<<JStr(NameAB)>>), JStr(TitleT)),
                                MkTrack(JList(<<JStr(NameA_B)>>), JStr(TitleT))>>)>>>>)
\* the playlist the metadata service holds for a channel
PlaylistOf(channel) == IF channel = "c1" THEN DocTwo ELSE DocSame

\* a file of json/: absent, opened for writing and left empty, or the dump of doc
NoFile == [k |-> "nofile", v |-> JNull]
EmptyFile == [k |-> "emptyfile", v |-> JNull]
\* json.dump(doc, f, indent=2)
Dump(doc) == [k |-> "jsonfile", v |-> doc]
\* json.load(f): JSONDecodeError on a file that holds no document
Load(file) ==
    IF file.k = "jsonfile" THEN [err |-> FALSE, doc |-> file.v]
    ELSE [err |-> TRUE, doc |-> JNull]

\* what requests.get answers: a ConnectionError, or a status and a body
Statuses == {"2xx", "3xx", "4xx", "5xx"}
Responses(channel) ==
    {[conn |-> FALSE, status |-> "none", body |-> JText(FALSE, JNull)]}
    \cup [conn : {TRUE}, status : Statuses,
          body : {JText(FALSE, JNull), JText(TRUE, PlaylistOf(channel))}]

\* response.raise_for_status(): HTTPError for 4xx and 5xx only
RaisesForStatus_ClientOnly(status) == status = "4xx"
RaisesForStatus(status) == status \in {"4xx", "5xx"}

\* what ytmusic.search answers in the program's runs
MainSearch == {<<>>, <<JDict(<<<<"category", JStr(Songs)>>, <<"videoId", JStr(VidX)>>>>)>>}

\* ------------------------------------------------------------------------
\* State
\* ------------------------------------------------------------------------
VARIABLES
    normIn, normOut,  \* the normalizer's input and output (SpecNorm)
    findIn, findOut,  \* the resolver's search results and output (SpecFind)
    splitOut,         \* the dispatcher's split of the normalizer's records (SpecRound)
    args,             \* parse_args(): [channel, download]
    runs,             \* invocations of the program so far
    jsonFiles,        \* json/<channel>.json, per channel
    mp3Files,         \* the .mp3 files of the output folders
    mainpc,           \* main: "start", "loop", "done"
    chanIdx,          \* main: position in args.channel
    exitCode,         \* what main returned, -1 before it returns
    runpc,            \* download_a_channel: "idle", "dispatch", "join", "returned", "raised"
    track_list,       \* download_a_channel: the records of the channel
    pool,             \* the WorkItems handed to apply_async, in order
    poolState,        \* "none", "RUN", "CLOSE", "TERMINATE"
    exam,             \* history: what the loop did with each record examined so far
    chanLog,          \* history: the channels main has entered in this invocation
    before,           \* history: the files on disk when the channel run began
    lastGet,          \* history: the latest call of getChannelJson
    okFetches,        \* history: fetches answered without an error status, per channel
    refused           \* history: the channels whose latest fetch was answered 4xx or 5xx

harnessVars == <<normIn, normOut, findIn, findOut, splitOut>>
diskVars == <<jsonFiles, mp3Files>>
mainVars == <<args, runs, mainpc, chanIdx, exitCode>>
runVars == <<runpc, track_list, pool, poolState>>
histVars == <<exam, chanLog, before, lastGet, okFetches, refused>>
vars == <<harnessVars, diskVars, mainVars, runVars, histVars>>

NoBefore == [json |-> {}, mp3 |-> {}]
NoGet ==
    [ch |-> "none", existed |-> FALSE, fetched |-> 0, status |-> "none",
     ret |-> "none", success |-> FALSE, prior |-> FALSE,
     fileBefore |-> NoFile, body |-> JNull]

IdleNorm ==
    /\ normIn = JNull
    /\ normOut = [done |-> TRUE, recs |-> <<>>]
IdleFind ==
    /\ findIn = <<>>
    /\ findOut = [done |-> TRUE, res |-> NoUrl]
IdleSplit == splitOut = [done |-> TRUE, parts |-> <<>>]
\* the program before it is started, on an empty disk
IdleProgram ==
    /\ runs = 1
    /\ jsonFiles = [c \in Channels |-> NoFile]
    /\ mp3Files = {}
    /\ mainpc = "start"
    /\ chanIdx = 1
    /\ exitCode = -1
    /\ runpc = "idle"
    /\ track_list = <<>>
    /\ pool = <<>>
    /\ poolState = "none"
    /\ exam = <<>>
    /\ chanLog = <<>>
    /\ before = NoBefore
    /\ lastGet = NoGet
    /\ okFetches = [c \in Channels |-> 0]
    /\ refused = {}
IdleArgs == args = [channel |-> <<"c1">>, download |-> FALSE]
programVars == <<args, diskVars, runs, mainpc, chanIdx, exitCode, runVars, histVars>>

\* --- the normalizer applied to every bounded input
NormInit ==
    /\ \E a \in ArtistsValues, t \in TitleValues, shape \in Shapes,
          ws \in Wrappers, given \in Given :
            \E d \in ShapeDocs(shape, MkTrack(a, t)) :
                \* text is given unwrapped: json.loads hands over the same document
                /\ given = "parsed" \/ ws = <<>>
                /\ normIn = NormInput(given, Wrap(ws, d))
    /\ normOut = [done |-> FALSE, recs |-> <<>>]
    /\ IdleFind /\ IdleSplit /\ IdleArgs /\ IdleProgram

Normalize ==
    /\ ~normOut.done
    /\ normOut' = [done |-> TRUE, recs |-> process_track_records(normIn)]
    /\ UNCHANGED <<normIn, findIn, findOut, splitOut, programVars>>

SpecNorm == NormInit /\ [][Normalize]_vars

\* --- the resolver applied to every bounded answer of the search
FindInit ==
    /\ findIn \in SearchResults
    /\ findOut = [done |-> FALSE, res |-> NoUrl]
    /\ IdleNorm /\ IdleSplit /\ IdleArgs /\ IdleProgram

Find ==
    /\ ~findOut.done
    /\ findOut' = [done |-> TRUE, res |-> find_song_on_youtube(findIn)]
    /\ UNCHANGED <<normIn, normOut, findIn, splitOut, programVars>>

SpecFind == FindInit /\ [][Find]_vars

\* --- the normalizer's records handed to the dispatcher's split
NameDash == <<"A", " ", "-", " ", "B">>
TitleDash == <<"T", " ", "-", " ", "U">>
RoundArtists ==
    SeqsUpTo({JStr(NameA), JStr(NameDash), JStr(Empty),
              JDict(<<<<"name", JStr(NameB)>>>>)}, MaxArtists)
RoundTitles == {JStr(TitleT), JStr(TitleDash), JStr(Empty)}
RoundDocs(t) ==
    {JDict(<<<<"tracks", JList(<<t>>)>>>>),
     JDict(<<<<"tracks", JList(<<t, GoodTrack>>)>>>>),
     JDict(<<<<"track", t>>>>)}

RoundInit ==
    /\ \E a \in RoundArtists, t \in RoundTitles :
            normIn \in RoundDocs(MkTrack(JList(a), t))
    /\ normOut = [done |-> FALSE, recs |-> <<>>]
    /\ splitOut = [done |-> FALSE, parts |-> <<>>]
    /\ IdleFind /\ IdleArgs /\ IdleProgram

\* a, t = track.split(' - ', 1) on every record the normalizer returned
SplitRecords ==
    /\ normOut.done /\ ~splitOut.done
    /\ splitOut' = [done |-> TRUE,
                    parts |-> [i \in 1..Len(normOut.recs) |->
                                  SplitFirst(RecordOf(normOut.recs[i]))]]
    /\ UNCHANGED <<normIn, normOut, findIn, findOut, programVars>>

RoundNext == Normalize \/ SplitRecords
SpecRound == RoundInit /\ [][RoundNext]_vars

\* ------------------------------------------------------------------------
\* getChannelJson and process_track_records_from_file
\* ------------------------------------------------------------------------
\* os.path.exists(jsonfilepath)
CacheExists_Never(files, channel) == FALSE
CacheExists(files, channel) == files[channel] # NoFile

\* getChannelJson(channel) on the cache files, the fetch answering resp. The file
\* is opened for writing before response.json() is evaluated. The JSONDecodeError
\* of response.json() is a RequestException (caught, None returned) or, with an
\* older requests (legacy), it is not and propagates.
getChannelJson(channel, files, resp, legacy) ==
    IF CacheExists(files, channel)
    THEN [ret |-> "path", files |-> files, fetched |-> 0, success |-> FALSE]
    ELSE IF ~resp.conn \/ RaisesForStatus(resp.status)
    THEN [ret |-> "none", files |-> files, fetched |-> 1, success |-> FALSE]
    ELSE LET decoded == json_loads(resp.body)
         IN  IF decoded.err
             THEN [ret |-> IF legacy THEN "raise" ELSE "none",
                   files |-> [files EXCEPT ![channel] = EmptyFile],
                   fetched |-> 1, success |-> FALSE]
             ELSE [ret |-> "path",
                   files |-> [files EXCEPT ![channel] = Dump(decoded.doc)],
                   fetched |-> 1, success |-> TRUE]

\* process_track_records_from_file(filepath): open(None) raises TypeError, which
\* the handler does not name; a file json.load cannot decode gives []
process_track_records_from_file(ret, file) ==
    IF ret # "path" THEN [err |-> TRUE, list |-> <<>>]
    ELSE LET loaded == Load(file)
         IN  IF loaded.err THEN [err |-> FALSE, list |-> <<>>]
             ELSE [err |-> FALSE, list |-> process_track_records(loaded.doc)]

\* ------------------------------------------------------------------------
\* main and download_a_channel
\* ------------------------------------------------------------------------
\* the first invocation, on an empty disk
Init ==
    /\ IdleNorm /\ IdleFind /\ IdleSplit /\ IdleProgram
    /\ args \in ArgChoices

\* update_stations() returns (json/stations.json, which nothing below reads, is
\* left out of the state), or an exception that is no RequestException escapes
\* to main's outer handler, which returns 1
UpdateStations ==
    /\ mainpc = "start"
    /\ \/ /\ mainpc' = "loop"
          /\ UNCHANGED exitCode
       \/ /\ mainpc' = "done"
          /\ exitCode' = 1
    /\ UNCHANGED <<harnessVars, diskVars, args, runs, chanIdx, runVars, histVars>>

\* download_a_channel up to the creation of the pool (lines 312-316)
GetChannelJson ==
    /\ mainpc = "loop" /\ runpc = "idle" /\ chanIdx <= Len(args.channel)
    /\ \E resp \in Responses(args.channel[chanIdx]), legacy \in BOOLEAN :
        LET channel == args.channel[chanIdx]
            g == getChannelJson(channel, jsonFiles, resp, legacy)
            r == process_track_records_from_file(g.ret, g.files[channel])
        IN  /\ jsonFiles' = g.files
            /\ lastGet' = [ch |-> channel,
                           existed |-> jsonFiles[channel] # NoFile,
                           fetched |-> g.fetched,
                           status |-> IF g.fetched = 0 THEN "none"
                                      ELSE IF resp.conn THEN resp.status ELSE "conn_error",
                           ret |-> g.ret,
                           success |-> g.success,
                           prior |-> channel \in refused,
                           fileBefore |-> jsonFiles[channel],
                           body |-> IF g.success THEN resp.body.v.doc ELSE JNull]
            /\ okFetches' = [okFetches EXCEPT ![channel] =
                                @ + (IF g.fetched = 1 /\ resp.conn /\ resp.status \in {"2xx", "3xx"}
                                     THEN 1 ELSE 0)]
            /\ refused' = IF g.fetched = 0 THEN refused
                           ELSE IF resp.conn /\ resp.status \in {"4xx", "5xx"}
                           THEN refused \cup {channel}
                           ELSE refused \ {channel}
            /\ before' = [json |-> {c \in Channels : jsonFiles[c] # NoFile}, mp3 |-> mp3Files]
            /\ chanLog' = Append(chanLog, [ch |-> channel, outcome |-> "running", inDispatch |-> FALSE,
                                       workerFailed |-> FALSE])
            /\ IF r.err
               THEN runpc' = "raised" /\ track_list' = <<>> /\ poolState' = "none"
               ELSE runpc' = "dispatch" /\ track_list' = r.list /\ poolState' = "RUN"
            /\ pool' = <<>>
            /\ exam' = <<>>
    /\ UNCHANGED <<harnessVars, mp3Files, mainVars>>

\* os.path.exists(f'{dst_folder}/{track_sanitize}.mp3')
os_path_exists_Never(files, path) == FALSE
os_path_exists(files, path) == path \in files

\* what the existence check can see: the files on disk, not the destinations of
\* the WorkItems that were submitted and have not written yet
CheckSees_Pending(files, items) ==
    files \cup {Mp3Path(items[j].folder, items[j].filename) : j \in 1..Len(items)}
CheckSees(files, items) == files

\* pool.terminate(), as the with statement calls it on exit: what is queued or in
\* flight is killed
Terminate(items) ==
    [j \in 1..Len(items) |->
        IF items[j].st \in {"queued", "running"}
        THEN [items[j] EXCEPT !.st = "killed"] ELSE items[j]]

\* `if u:` on what find_song_on_youtube returned: None is falsy, a URL is not
UrlTruthy_Always(u) == TRUE
UrlTruthy(u) == u.found

Examined(existed, resolved, found, raised) ==
    [existed |-> existed, resolved |-> resolved, found |-> found, raised |-> raised]

\* one pass of `for track in track_list` (lines 318-330)
DispatchTrack ==
    /\ runpc = "dispatch" /\ Len(exam) < Len(track_list)
    /\ LET i == Len(exam) + 1
           channel == args.channel[chanIdx]
           track == RecordOf(track_list[i])
           track_sanitize == Sanitize(track)
           present == Mp3Path(channel, track_sanitize) \in mp3Files
       IN  IF os_path_exists(CheckSees(mp3Files, pool), Mp3Path(channel, track_sanitize))
           THEN /\ exam' = Append(exam, Examined(present, FALSE, FALSE, FALSE))
                /\ UNCHANGED <<runpc, pool, poolState>>
           ELSE LET parts == SplitFirst(track)
                IN  IF ~parts.ok
                    THEN \* too few values to unpack
                         /\ exam' = Append(exam, Examined(present, FALSE, FALSE, TRUE))
                         /\ pool' = Terminate(pool)
                         /\ poolState' = "TERMINATE"
                         /\ runpc' = "raised"
                    ELSE \/ \* the search raises
                            /\ exam' = Append(exam, Examined(present, TRUE, FALSE, TRUE))
                            /\ pool' = Terminate(pool)
                            /\ poolState' = "TERMINATE"
                            /\ runpc' = "raised"
                         \/ \E results \in MainSearch :
                                LET u == find_song_on_youtube(results)
                                IN  /\ exam' = Append(exam, Examined(present, TRUE, u.found, FALSE))
                                    /\ pool' = IF UrlTruthy(u)
                                               THEN Append(pool,
                                                      [rec |-> i, url |-> u.url,
                                                       filename |-> track_sanitize,
                                                       quality |-> "192",
                                                       folder |-> channel,
                                                       download |-> args.download,
                                                       st |-> "queued",
                                                       afterFail |-> FALSE])
                                               ELSE pool
                                    /\ UNCHANGED <<runpc, poolState>>
    /\ UNCHANGED <<harnessVars, diskVars, mainVars, track_list,
                   chanLog, before, lastGet, okFetches, refused>>

\* pool.close()
ClosePool ==
    /\ runpc = "dispatch" /\ Len(exam) = Len(track_list)
    /\ poolState' = "CLOSE"
    /\ runpc' = "join"
    /\ UNCHANGED <<harnessVars, diskVars, mainVars, track_list, pool, histVars>>

\* pool.join() waits for this
AllFinished_NoWait(items) == TRUE
AllFinished(items) == \A j \in 1..Len(items) : items[j].st \in {"done", "failed"}

\* pool.join() returns, the with statement ends, download_a_channel returns
JoinPool ==
    /\ runpc = "join" /\ AllFinished(pool)
    /\ poolState' = "TERMINATE"
    /\ runpc' = "returned"
    /\ UNCHANGED <<harnessVars, diskVars, mainVars, track_list, pool, histVars>>

\* --- the workers of the pool
Running(items) == {j \in 1..Len(items) : items[j].st = "running"}
Queued(items) == {j \in 1..Len(items) : items[j].st = "queued"}

\* a free worker process takes the oldest queued task
WorkerTake ==
    /\ poolState \in {"RUN", "CLOSE"}
    /\ Cardinality(Running(pool)) < CpuCount
    /\ Queued(pool) # {}
    /\ LET j == CHOOSE q \in Queued(pool) : \A k \in Queued(pool) : q <= k
       IN  pool' = [pool EXCEPT ![j].st = "running",
                                ![j].afterFail = (\E k \in 1..Len(pool) : pool[k].st = "failed")]
    /\ UNCHANGED <<harnessVars, diskVars, mainVars, runpc, track_list, poolState, histVars>>

\* `if download:` of download_worker
WorkerWrites_Always(item) == TRUE
WorkerWrites(item) == item.download

\* download_worker ends: with download the tool has written
\* <output_folder>/<filename>.mp3, without it only a line is logged
WorkerDone ==
    /\ poolState \in {"RUN", "CLOSE"}
    /\ \E j \in Running(pool) :
        /\ pool' = [pool EXCEPT ![j].st = "done"]
        /\ mp3Files' = IF WorkerWrites(pool[j])
                       THEN mp3Files \cup {Mp3Path(pool[j].folder, pool[j].filename)}
                       ELSE mp3Files
    /\ UNCHANGED <<harnessVars, jsonFiles, mainVars, runpc, track_list,
                   poolState, histVars>>

\* the task of item j raised: the worker process keeps the exception as the
\* task's result and takes its next task; no other item is touched
WorkerRaised_StopsAll(items, j) == Terminate([items EXCEPT ![j].st = "failed"])
WorkerRaised(items, j) == [items EXCEPT ![j].st = "failed"]

\* ydl.download raises inside the worker
WorkerFail ==
    /\ poolState \in {"RUN", "CLOSE"}
    /\ \E j \in Running(pool) :
        /\ pool[j].download
        /\ pool' = WorkerRaised(pool, j)
    /\ UNCHANGED <<harnessVars, diskVars, mainVars, runpc, track_list, poolState, histVars>>

\* --- main's loop over args.channel
SetOutcome(log, outcome) ==
    [log EXCEPT ![Len(log)].outcome = outcome,
                ![Len(log)].inDispatch = (poolState = "TERMINATE"),
                ![Len(log)].workerFailed = (\E j \in 1..Len(pool) : pool[j].st = "failed")]

\* download_a_channel returned: the next channel
ChannelReturned ==
    /\ mainpc = "loop" /\ runpc = "returned"
    /\ chanLog' = SetOutcome(chanLog, "returned")
    /\ chanIdx' = chanIdx + 1
    /\ runpc' = "idle" /\ track_list' = <<>> /\ pool' = <<>> /\ poolState' = "none"
    /\ exam' = <<>> /\ before' = NoBefore /\ lastGet' = NoGet
    /\ UNCHANGED <<harnessVars, diskVars, args, runs, mainpc, exitCode, okFetches, refused>>

\* where main goes on after `except Exception` of the loop body has logged
AfterHandler_Abort == "done"
AfterHandler == "loop"

\* download_a_channel raised: the handler of the loop body logs the channel
\* (get_sorted_channels catches whatever it raises itself)
ChannelRaised ==
    /\ mainpc = "loop" /\ runpc = "raised"
    /\ chanLog' = SetOutcome(chanLog, "raised")
    /\ mainpc' = AfterHandler
    /\ IF AfterHandler = "loop"
       THEN chanIdx' = chanIdx + 1 /\ UNCHANGED exitCode
       ELSE exitCode' = 1 /\ UNCHANGED chanIdx
    /\ runpc' = "idle" /\ track_list' = <<>> /\ pool' = <<>> /\ poolState' = "none"
    /\ exam' = <<>> /\ before' = NoBefore /\ lastGet' = NoGet
    /\ UNCHANGED <<harnessVars, diskVars, args, runs, okFetches, refused>>

\* `return 0` after the loop, whatever the channels did
ExitAfterLoop_OneIfRaised(log) ==
    IF \E k \in 1..Len(log) : log[k].outcome = "raised" THEN 1 ELSE 0
ExitAfterLoop(log) == 0

\* the loop has run to its end: return 0
MainReturn ==
    /\ mainpc = "loop" /\ runpc = "idle" /\ chanIdx > Len(args.channel)
    /\ mainpc' = "done"
    /\ exitCode' = ExitAfterLoop(chanLog)
    /\ UNCHANGED <<harnessVars, diskVars, args, runs, chanIdx, runVars, histVars>>

\* the program is started again, on the disk the earlier invocations left
Restart ==
    /\ mainpc = "done" /\ runs < MaxRuns
    /\ runs' = runs + 1
    /\ args' \in ArgChoices
    /\ mainpc' = "start" /\ chanIdx' = 1 /\ exitCode' = -1
    /\ chanLog' = <<>>
    /\ UNCHANGED <<harnessVars, diskVars, runVars, exam, before, lastGet, okFetches, refused>>

Next ==
    \/ UpdateStations
    \/ GetChannelJson
    \/ DispatchTrack
    \/ ClosePool
    \/ JoinPool
    \/ WorkerTake
    \/ WorkerDone
    \/ WorkerFail
    \/ ChannelReturned
    \/ ChannelRaised
    \/ MainReturn
    \/ Restart

Spec == Init /\ [][Next]_vars

\* ------------------------------------------------------------------------
\* Properties of the program (checked under Spec)
\* ------------------------------------------------------------------------
\* the channel download_a_channel is working on
CurChannel == args.channel[chanIdx]
Cached == {c \in Channels : jsonFiles[c] # NoFile}
Submitted(i) == \E j \in 1..Len(pool) : pool[j].rec = i

\* C1: a record whose <sanitized record>.mp3 exists in the channel's folder when
\* the record is examined is not resolved, and no WorkItem is submitted for it.
C1_NoSubmitForExistingFile ==
    \A i \in 1..Len(exam) :
        exam[i].existed => ~exam[i].resolved /\ ~Submitted(i)

\* a run skipped a record that is on disk and downloaded another
C1_Witness ==
    /\ runpc = "returned"
    /\ \E i \in 1..Len(exam) : exam[i].existed
    /\ \E j \in 1..Len(pool) : pool[j].st = "done" /\ pool[j].download

\* C2: when a channel raises (in the cache fetch, the normalization or the
\* dispatch), main goes on with the loop: it ends only with every requested
\* channel entered, in order, and returns 0.
C2_FailingChannelDoesNotEndLoop ==
    (\E k \in 1..Len(chanLog) : chanLog[k].outcome = "raised") =>
        /\ mainpc \in {"loop", "done"}
        /\ \A k \in 1..Len(chanLog) : chanLog[k].ch = args.channel[k]
        /\ mainpc = "done" => Len(chanLog) = Len(args.channel) /\ exitCode = 0

\* the first of two channels raised during dispatch, the second one's track was
\* still downloaded to its folder
C2_Witness ==
    /\ mainpc = "done" /\ Len(chanLog) = 2
    /\ chanLog[1].outcome = "raised" /\ chanLog[1].inDispatch
    /\ chanLog[2].outcome = "returned"
    /\ args.channel[1] # args.channel[2]
    /\ \E f \in mp3Files : f.folder = args.channel[2]
    /\ runs = 1

\* C3: once the pool is closed no WorkItem is added to it, and
\* download_a_channel returns only with every submitted WorkItem completed or
\* failed: none is queued or in flight when it returns.
C3_JoinIsBarrier ==
    /\ [](runpc = "returned" =>
            \A j \in 1..Len(pool) : pool[j].st \in {"done", "failed"})
    /\ [][(poolState \in {"CLOSE", "TERMINATE"}) => (Len(pool') =< Len(pool))]_vars

\* a run returned after one WorkItem completed and another failed
C3_Witness ==
    /\ runpc = "returned" /\ Len(pool) = 2
    /\ \E j, k \in 1..Len(pool) : pool[j].st = "done" /\ pool[k].st = "failed"

\* C4: with json/<channel>.json absent getChannelJson fetches once and, when
\* the fetch succeeds, the file holds the fetched document and the records are
\* read from it; with the file present there is no fetch and the file is left
\* as it was; so no channel's fetch is answered without an error status twice,
\* over all invocations.
C4_CacheWriteOnce ==
    /\ \A c \in Channels : okFetches[c] <= 1
    /\ lastGet.ch \in Channels =>
        /\ lastGet.existed =>
              lastGet.fetched = 0 /\ jsonFiles[lastGet.ch] = lastGet.fileBefore
        /\ ~lastGet.existed => lastGet.fetched = 1
        /\ lastGet.success =>
              /\ jsonFiles[lastGet.ch] = Dump(lastGet.body)
              /\ track_list = process_track_records(lastGet.body)

\* a second invocation finds the file the first one fetched, and does not fetch
C4_Witness ==
    /\ runs = 2 /\ lastGet.ch \in Channels
    /\ lastGet.existed /\ lastGet.fetched = 0
    /\ okFetches[lastGet.ch] = 1
    /\ Len(track_list) = 2

\* every record was examined; each one not on disk was resolved; each one
\* resolved was submitted
ResolutionComplete ==
    /\ Len(exam) = Len(track_list)
    /\ \A i \in 1..Len(exam) :
          /\ ~exam[i].existed => exam[i].resolved
          /\ exam[i].found => Submitted(i)

\* C5 (as claimed): without the download flag a channel run resolves and
\* submits as usual and the set of files on disk is the same after the run as
\* before it.
C5_DryRunLeavesDiskUnchanged ==
    (~args.download /\ runpc = "returned") =>
        /\ ResolutionComplete
        /\ mp3Files = before.mp3
        /\ Cached = before.json

\* C5 (amended): without the download flag a channel run resolves and submits
\* as usual and no worker creates a file: the .mp3 files are those that were
\* there before the run; the one file the run itself may create is the cache
\* file json/<channel>.json of its channel.
C5_DryRunWritesNoMp3 ==
    (~args.download /\ runpc # "idle") =>
        /\ mp3Files = before.mp3
        /\ Cached \subseteq before.json \cup {CurChannel}
        /\ runpc = "returned" =>
              /\ ResolutionComplete
              /\ \A j \in 1..Len(pool) : pool[j].st = "done"

\* a dry run fetched its cache file, resolved and submitted two records, the
\* workers ran, and no .mp3 appeared
C5_Witness ==
    /\ ~args.download /\ runpc = "returned"
    /\ lastGet.success /\ CurChannel \notin before.json
    /\ Len(pool) = 2 /\ \A j \in 1..Len(pool) : pool[j].st = "done"
    /\ mp3Files = before.mp3

\* C10 (as claimed): a fetch answered with a non-2xx status makes getChannelJson
\* report failure and leaves json/<channel>.json absent.
C10_Non2xxLeavesNoFile ==
    (lastGet.fetched = 1 /\ lastGet.status \in {"3xx", "4xx", "5xx"}) =>
        lastGet.ret # "path" /\ jsonFiles[lastGet.ch] = NoFile

\* C10 (amended): a fetch answered with a 4xx or 5xx status makes
\* getChannelJson return None and leaves json/<channel>.json absent, and the
\* next call for that channel fetches again.
C10_ErrorStatusLeavesNoFile ==
    /\ (lastGet.fetched = 1 /\ lastGet.status \in {"4xx", "5xx"}) =>
          lastGet.ret = "none" /\ jsonFiles[lastGet.ch] = NoFile
    /\ lastGet.prior => lastGet.fetched = 1

\* a second invocation fetches again the channel that was refused in the first
C10_Witness ==
    /\ runs = 2 /\ lastGet.prior /\ lastGet.fetched = 1 /\ lastGet.success

\* C11: the filename of every WorkItem is the sanitized record, which holds
\* neither `/` nor `\`, its folder is the channel's, and the file a completed
\* downloading worker wrote is the one the existence check of that record looks
\* for; a record is skipped exactly when that file is on disk.
C11_SanitizedNameAgrees ==
    /\ runpc # "idle" =>
          \A j \in 1..Len(pool) :
              LET name == Sanitize(RecordOf(track_list[pool[j].rec]))
              IN  /\ pool[j].filename = name
                  /\ \A k \in 1..Len(name) : name[k] \notin {"/", "\\"}
                  /\ pool[j].folder = CurChannel
                  /\ (pool[j].st = "done" /\ pool[j].download) =>
                        Mp3Path(CurChannel, name) \in mp3Files
    /\ \A i \in 1..Len(exam) :
          exam[i].existed <=> (~exam[i].resolved /\ ~exam[i].raised)

\* a second invocation skips the record `A/B - T`, whose file `A-B - T.mp3` a
\* worker of the first invocation wrote
C11_Witness ==
    /\ runs = 2 /\ runpc = "dispatch" /\ Len(exam) >= 1
    /\ exam[1].existed
    /\ RecordOf(track_list[1]) = NameAB \o SepTitle \o TitleT
    /\ Mp3Path(CurChannel, NameA_B \o SepTitle \o TitleT) \in mp3Files

\* C12: main returns 0 exactly when the loop over the requested channels ran to
\* its end, whatever channels raised and whatever workers failed on the way, and
\* returns 1 only when an exception reached the outer handler, which no
\* channel's failure does: it then escaped before the loop.
C12_ExitCode ==
    /\ exitCode \in {-1, 0, 1}
    /\ mainpc = "done" <=> exitCode # -1
    /\ mainpc = "done" =>
          /\ exitCode = 0 <=> Len(chanLog) = Len(args.channel)
          /\ exitCode = 1 <=> chanLog = <<>>

\* main returned 0 after one channel raised and a worker of the other failed
C12_Witness ==
    /\ mainpc = "done" /\ exitCode = 0 /\ Len(chanLog) = 2
    /\ chanLog[1].outcome = "returned" /\ chanLog[1].workerFailed
    /\ chanLog[2].outcome = "raised"

\* C13 (as claimed): every WorkItem submitted during a channel run is executed
\* by a worker to its end, also when a later record raises inside the dispatch
\* loop: none is killed while queued or in flight, and when the run ends each
\* one has completed or failed.
C13_SubmittedItemsRunToTheEnd ==
    /\ \A j \in 1..Len(pool) : pool[j].st # "killed"
    /\ runpc \in {"returned", "raised"} =>
          \A j \in 1..Len(pool) : pool[j].st \in {"done", "failed"}

\* the catalog search raised while record i was resolved
SearchRaised(i) == exam[i].resolved /\ exam[i].raised

\* C14 (as claimed): when the catalog search raises for a record, the record is
\* skipped like a miss: nothing is submitted for it, download_a_channel does not
\* raise but goes on with the remaining records, and the WorkItems already
\* submitted are not killed.
C14_SearchFailureIsSkipped ==
    \A i \in 1..Len(exam) :
        SearchRaised(i) =>
            /\ ~Submitted(i)
            /\ runpc \in {"dispatch", "join", "returned"}
            /\ \A j \in 1..Len(pool) : pool[j].st # "killed"

\* find_song_on_youtube returned None for record i
Miss(i) == exam[i].resolved /\ ~exam[i].found /\ ~exam[i].raised

\* C15: a record for which find_song_on_youtube returns None gets no WorkItem
\* and raises nothing: the loop goes on to the next record, so that a run which
\* reaches the join has examined every record and submitted every one that
\* was resolved, and a run that raised did so on a record that was no miss.
C15_MissIsLocal ==
    /\ \A i \in 1..Len(exam) : Miss(i) => ~Submitted(i)
    /\ (exam # <<>> /\ Miss(Len(exam))) =>
          /\ runpc \in {"dispatch", "join", "returned"}
          /\ Len(exam) < Len(track_list) => runpc = "dispatch"
          /\ \A j \in 1..Len(pool) : pool[j].st # "killed"
    /\ runpc \in {"join", "returned"} =>
          /\ Len(exam) = Len(track_list)
          /\ \A i \in 1..Len(exam) :
                (exam[i].resolved /\ exam[i].found) => Submitted(i)

\* the first record was a miss, the second was resolved and downloaded
C15_Witness ==
    /\ runpc = "returned" /\ Len(exam) = 2
    /\ Miss(1) /\ ~Submitted(1)
    /\ exam[2].found /\ Submitted(2)
    /\ \E j \in 1..Len(pool) : pool[j].rec = 2 /\ pool[j].st = "done" /\ pool[j].download

\* item j fails in this step
FailsNow(j) == j <= Len(pool) /\ pool[j].st = "running" /\ Len(pool') >= j /\ pool'[j].st = "failed"

\* C16: the step in which a worker's task raises changes that WorkItem only
\* (the others stay queued, in flight or finished, the pool keeps running and
\* the dispatcher goes on); a failed WorkItem stays failed, it is not run again;
\* and a run that returns after a failure has every other WorkItem completed or
\* failed.
C16_FailureDoesNotStopOthers ==
    /\ [][\A j \in 1..Len(pool) :
            /\ FailsNow(j) =>
                  /\ Len(pool') = Len(pool)
                  /\ \A k \in 1..Len(pool) : k # j => pool'[k] = pool[k]
                  /\ poolState' = poolState /\ runpc' = runpc
            /\ (pool[j].st = "failed" /\ Len(pool') >= j) => pool'[j].st = "failed"]_vars
    /\ []((runpc = "returned" /\ \E j \in 1..Len(pool) : pool[j].st = "failed") =>
            \A k \in 1..Len(pool) : pool[k].st \in {"done", "failed"})

\* the first WorkItem failed, the second was taken by a worker after that
\* failure and completed
C16_Witness ==
    /\ runpc = "returned" /\ Len(pool) = 2
    /\ pool[1].st = "failed"
    /\ pool[2].afterFail /\ pool[2].st = "done"

\* C17 (as claimed): a worker's error is observed by the dispatcher at the join:
\* download_a_channel does not return normally from a run in which a worker
\* raised, and main sees such a channel as failed.
C17_FailureSurfacesAtJoin ==
    /\ runpc = "returned" => \A j \in 1..Len(pool) : pool[j].st # "failed"
    /\ \A k \in 1..Len(chanLog) :
          chanLog[k].workerFailed => chanLog[k].outcome = "raised"

\* WorkItems j and k are for different records and have the same destination
SameDestination(j, k) ==
    /\ pool[j].rec # pool[k].rec
    /\ pool[j].folder = pool[k].folder /\ pool[j].filename = pool[k].filename

\* C18: a record is compared with the files on disk only, never with the
\* WorkItems already submitted: every record whose file is not on disk when it
\* is examined is resolved, and submitted when it resolves, also when a pending
\* WorkItem of the run has the same destination.
C18_DedupOnlyAgainstDisk ==
    \A i \in 1..Len(exam) :
        /\ ~exam[i].existed => (exam[i].resolved \/ exam[i].raised)
        /\ (~exam[i].existed /\ exam[i].found) => Submitted(i)

\* two records that sanitize to the same name were both submitted, the second
\* one examined while the first WorkItem had not written the file, which was
\* not on disk when the run began
C18_Witness ==
    /\ Len(pool) = 2 /\ SameDestination(1, 2)
    /\ RecordOf(track_list[1]) # RecordOf(track_list[2])
    /\ pool[1].download /\ pool[1].st \in {"queued", "running"}
    /\ Mp3Path(pool[1].folder, pool[1].filename) \notin mp3Files
    /\ before.mp3 = {}

\* C19 (as claimed): a cache file that exists holds the complete document of a
\* successful fetch, and a fetch that failed in any way (connection, status,
\* decoding) leaves the file absent.
C19_CacheNeverIncomplete ==
    /\ \A c \in Channels :
          jsonFiles[c] # NoFile => jsonFiles[c] = Dump(PlaylistOf(c))
    /\ (lastGet.fetched = 1 /\ ~lastGet.success) => jsonFiles[lastGet.ch] = NoFile

\* ------------------------------------------------------------------------
\* Properties of the normalizer (checked under SpecNorm)
\* ------------------------------------------------------------------------
\* the document the normalizer walks
NormDoc == IF normIn.k = "text" THEN normIn.v.doc ELSE normIn

RECURSIVE Paths(_)
Paths(d) ==
    {<<>>} \cup
    (IF IsDict(d)
     THEN UNION {{<<i>> \o p : p \in Paths(d.v[i][2])} : i \in 1..Len(d.v)}
     ELSE IF IsList(d)
     THEN UNION {{<<i>> \o p : p \in Paths(d.v[i])} : i \in 1..Len(d.v)}
     ELSE {})

RECURSIVE ValueAt(_, _)
ValueAt(d, p) ==
    IF p = <<>> THEN d
    ELSE IF IsDict(d) THEN ValueAt(d.v[Head(p)][2], Tail(p))
    ELSE ValueAt(d.v[Head(p)], Tail(p))

Front(p) == SubSeq(p, 1, Len(p) - 1)

\* the value at p is an object under a singular `track` key
UnderSingular(doc, p) ==
    /\ Len(p) >= 1
    /\ LET par == ValueAt(doc, Front(p))
       IN  IsDict(par) /\ par.v[p[Len(p)]][1] = "track"
    /\ IsDict(ValueAt(doc, p))

\* the object that holds the plural list in which p sits
PluralHolder(doc, p) == ValueAt(doc, Front(Front(p)))
\* the value at p is an object inside a plural `tracks` list
InPlural(doc, p) ==
    /\ Len(p) >= 2
    /\ IsList(ValueAt(doc, Front(p)))
    /\ IsDict(PluralHolder(doc, p))
    /\ PluralHolder(doc, p).v[p[Len(p) - 1]][1] = "tracks"
    /\ IsDict(ValueAt(doc, p))

UsableName(entry) ==
    \/ IsStr(entry) /\ entry.v # Empty
    \/ /\ IsDict(entry) /\ Has(entry, "name")
       /\ IsStr(Get(entry, "name")) /\ Get(entry, "name").v # Empty
\* a name of the wrong type: an artist object whose truthy name is not a string
MistypedName(entry) ==
    IsDict(entry) /\ Has(entry, "name")
    /\ Truthy(Get(entry, "name")) /\ ~IsStr(Get(entry, "name"))

ValidTrack(t) ==
    /\ Has(t, "artists") /\ IsList(Get(t, "artists"))
    /\ \E i \in 1..Len(Get(t, "artists").v) : UsableName(Get(t, "artists").v[i])
    /\ Has(t, "title") /\ IsStr(Get(t, "title")) /\ Get(t, "title").v # Empty
MissingField(t) == ~Has(t, "artists") \/ ~Has(t, "title")
HasMistypedName(t) ==
    /\ Has(t, "artists") /\ IsList(Get(t, "artists")) /\ Has(t, "title")
    /\ \E i \in 1..Len(Get(t, "artists").v) : MistypedName(Get(t, "artists").v[i])

\* how many emitted records come from the track at p
Emitted(p) == Cardinality({i \in 1..Len(normOut.recs) : normOut.recs[i].path = p})

\* the plural list at p's holder is shadowed by an object-valued singular track
Shadowed(doc, p) == InPlural(doc, p) /\ SingularIsDict(PluralHolder(doc, p))
Offered(doc, p) == UnderSingular(doc, p) \/ (InPlural(doc, p) /\ ~Shadowed(doc, p))
\* some offered track makes ", ".join raise
Aborts(doc) ==
    \E p \in Paths(doc) : Offered(doc, p) /\ HasMistypedName(ValueAt(doc, p))

\* C6 (as claimed): one record for each valid track under a singular `track` key
\* or inside a plural `tracks` list at any depth, none for a track missing
\* `artists` or `title`.
C6_OneRecordPerValidTrack ==
    normOut.done =>
        \A p \in Paths(NormDoc) :
            (UnderSingular(NormDoc, p) \/ InPlural(NormDoc, p)) =>
                /\ ValidTrack(ValueAt(NormDoc, p)) => Emitted(p) = 1
                /\ MissingField(ValueAt(NormDoc, p)) => Emitted(p) = 0

\* C6 (amended): when no offered track has an artist object with a truthy
\* non-string name, exactly one record for each valid track under a singular
\* `track` key or inside a plural `tracks` list whose holder has no
\* object-valued `track` key, none for a track missing `artists` or `title`, and
\* none for the items of a plural list shadowed by an object-valued `track`
\* (unless the item also sits under a singular key); otherwise no record at all.
C6_OneRecordPerOfferedValidTrack ==
    normOut.done =>
        IF Aborts(NormDoc)
        THEN normOut.recs = <<>>
        ELSE \A p \in Paths(NormDoc) :
                /\ Offered(NormDoc, p) =>
                      /\ ValidTrack(ValueAt(NormDoc, p)) => Emitted(p) = 1
                      /\ MissingField(ValueAt(NormDoc, p)) => Emitted(p) = 0
                /\ Shadowed(NormDoc, p) => Emitted(p) = 0

\* a shadowed valid track is dropped while a valid track below the root object
\* is emitted once
C6_Witness ==
    /\ normOut.done /\ ~Aborts(NormDoc)
    /\ \E p \in Paths(NormDoc) :
          Shadowed(NormDoc, p) /\ ValidTrack(ValueAt(NormDoc, p)) /\ Emitted(p) = 0
    /\ \E q \in Paths(NormDoc) :
          /\ Len(q) >= 2 /\ Offered(NormDoc, q)
          /\ ValidTrack(ValueAt(NormDoc, q)) /\ Emitted(q) = 1

\* C7 (as claimed): every emitted record has a non-empty artist part and a
\* non-empty title part.
C7_NonEmptyParts ==
    normOut.done =>
        \A i \in 1..Len(normOut.recs) :
            normOut.recs[i].artist # Empty /\ normOut.recs[i].title # Empty

\* C9 (as claimed): a type mismatch inside one track affects at most that track:
\* every offered valid track that has no mistyped name of its own is emitted,
\* whatever the other tracks of the document hold; malformed text yields the
\* empty sequence.
C9_MismatchIsLocal ==
    normOut.done =>
        /\ \A p \in Paths(NormDoc) :
              ( /\ Offered(NormDoc, p)
                /\ ValidTrack(ValueAt(NormDoc, p))
                /\ ~HasMistypedName(ValueAt(NormDoc, p)) ) => Emitted(p) = 1
        /\ (normIn.k = "text" /\ ~normIn.v.ok) => normOut.recs = <<>>

\* ------------------------------------------------------------------------
\* Properties of the resolver (checked under SpecFind)
\* ------------------------------------------------------------------------
\* C8 (as claimed): only the first search result is considered: none when it is
\* not a "Songs" result with a non-null videoId, whatever follows it, and
\* otherwise the URL built from the first result's id.
C8_OnlyFirstResult ==
    findOut.done =>
        findOut.res = IF findIn # <<>> /\ Accepts(findIn[1])
                      THEN UrlOf(Get(findIn[1], "videoId"))
                      ELSE NoUrl

\* ------------------------------------------------------------------------
\* Properties of the record round trip (checked under SpecRound)
\* ------------------------------------------------------------------------
\* C20 (as claimed): the split of every emitted record on the first " - "
\* yields two parts, and they are the artist string and the title the normalizer
\* formatted, also when the artist string holds " - ".
C20_SplitRoundTrip ==
    splitOut.done =>
        /\ Len(splitOut.parts) = Len(normOut.recs)
        /\ \A i \in 1..Len(normOut.recs) :
              /\ splitOut.parts[i].ok
              /\ splitOut.parts[i].a = normOut.recs[i].artist
              /\ splitOut.parts[i].t = normOut.recs[i].title

====
